---- MODULE Spec2Model ----
(***************************************************************************)
(* Model of readmeai/config/settings.py: the Git service registry, the     *)
(* GitSettings validators (repository -> source -> name), the loading of   *)
(* the primary configuration document into AppConfig, and the merge of the *)
(* helper documents in ConfigHelper.load_helper_files.                     *)
(*                                                                         *)
(* Text is modelled as a sequence of fragments: "https://localhost/x.git"  *)
(* is <<"https", ":", "/", "/", "local", "host", "/", "x", ".git">>.       *)
(* Concatenation is \o, slicing is SubSeq, `a in b` is containment of a    *)
(* as a contiguous run of b.  The fragments are chosen so that no host of  *)
(* the registry and no ".git" occurs across a fragment boundary or inside  *)
(* a longer fragment, so that the fragment-level operations agree with the *)
(* character-level ones of the source.                                     *)
(***************************************************************************)
EXTENDS Integers, Sequences, FiniteSets, TLC

VARIABLES
    phase,        \* which operation of the module is running, and its position
    repository,   \* GitSettings input: the raw repository text
    isDir,        \* whether Path(repository).is_dir() holds on this file system
    values,       \* pydantic's `values`: the GitSettings fields validated so far
    errors,       \* pydantic's error list for GitSettings: {[loc, msg]}
    fileArgs,     \* (file_path, full_name) handed to the remote-file-URL builder
    fileUrl,      \* the URL it returned, <<>> before it ran
    doc,          \* primary document: the set of (section, key) pairs present
    docSections,  \* primary document: the set of sections (tables) present
    loaded,       \* AppConfig sections validated so far: section -> key -> value
    loadErrors,   \* pydantic's error list for AppConfigModel: set of locations
    config,       \* the AppConfig load_config returned, <<>> when none
    helperDocs,   \* the four helper documents, in conf_path_list order
    idx,          \* number of helper documents processed so far
    dependency_files, ignore_files, language_names, language_setup

vars == <<phase, repository, isDir, values, errors, fileArgs, fileUrl,
          doc, docSections, loaded, loadErrors, config,
          helperDocs, idx, dependency_files, ignore_files, language_names,
          language_setup>>

gitVars    == <<repository, isDir, values, errors>>
urlVars    == <<fileArgs, fileUrl>>
loadVars   == <<doc, docSections, loaded, loadErrors, config>>
helperVars == <<helperDocs, idx, dependency_files, ignore_files,
                language_names, language_setup>>

(***************************************************************************)
(* Bounds of the model.                                                    *)
(***************************************************************************)
MaxNetloc == 2     \* fragments in a generated network location
MaxSegs   == 2     \* '/'-separated segments in a generated path

(***************************************************************************)
(* Generic helpers on sequences.                                           *)
(***************************************************************************)
Range(s) == {s[i] : i \in DOMAIN s}

SeqsUpTo(S, n) == UNION {[1..k -> S] : k \in 0..n}

\* str.find(ch, start) for the first of several characters: the least index
\* >= start holding a member of chars, 0 when there is none (python's -1).
FindAny(s, chars, start) ==
    LET hits == {i \in start..Len(s) : s[i] \in chars}
    IN IF hits = {} THEN 0 ELSE CHOOSE i \in hits : \A j \in hits : i <= j

\* str.rfind(ch): the greatest index holding ch, 0 when there is none.
RFind(s, ch) ==
    LET hits == {i \in DOMAIN s : s[i] = ch}
    IN IF hits = {} THEN 0 ELSE CHOOSE i \in hits : \A j \in hits : i >= j

\* python's `a in b` for text: a is a contiguous run of b.
Contains(b, a) ==
    \E i \in 1..(Len(b) - Len(a) + 1) : SubSeq(b, i, i + Len(a) - 1) = a

(***************************************************************************)
(* GitService: the enum, in definition order.                              *)
(***************************************************************************)
GitService_LOCAL ==
    [host |-> <<"local">>, api_url |-> <<>>, file_url |-> <<"{file_path}">>]

GitService_GITHUB ==
    [host |-> <<"github.com">>,
     api_url |-> <<"https", ":", "/", "/", "api.", "github.com", "/", "repos", "/">>,
     file_url |-> <<"https", ":", "/", "/", "github.com", "/", "{full_name}",
                    "/", "blob", "/", "main", "/", "{file_path}">>]

\* GitLab's template with GitHub's branch.
GitService_GITLAB_MainBranch ==
    [host |-> <<"gitlab.com">>,
     api_url |-> <<"https", ":", "/", "/", "api.", "gitlab.com", "/", "v4", "/",
                   "projects", "/">>,
     file_url |-> <<"https", ":", "/", "/", "gitlab.com", "/", "{full_name}",
                    "/", "-", "/", "blob", "/", "main", "/", "{file_path}">>]

GitService_GITLAB ==
    [host |-> <<"gitlab.com">>,
     api_url |-> <<"https", ":", "/", "/", "api.", "gitlab.com", "/", "v4", "/",
                   "projects", "/">>,
     file_url |-> <<"https", ":", "/", "/", "gitlab.com", "/", "{full_name}",
                    "/", "-", "/", "blob", "/", "master", "/", "{file_path}">>]

GitService_BITBUCKET ==
    [host |-> <<"bitbucket.org">>,
     api_url |-> <<"https", ":", "/", "/", "api.", "bitbucket.org", "/", "2.0", "/",
                   "repositories", "/">>,
     file_url |-> <<"https", ":", "/", "/", "bitbucket.org", "/", "{full_name}",
                    "/", "src", "/", "master", "/", "{file_path}">>]

\* Iterating the enum yields its members in definition order.
GitService ==
    <<GitService_LOCAL, GitService_GITHUB, GitService_GITLAB, GitService_BITBUCKET>>

Hosts == {GitService[i].host : i \in DOMAIN GitService}

(***************************************************************************)
(* urllib.parse.urlsplit / urlparse, on fragments.                         *)
(***************************************************************************)
\* Fragments made of scheme characters only (letters, digits, "+", "-", ".").
SchemeFrags == {"https", "http", "HTTPS", "github.com", "gitlab.com",
                "bitbucket.org", "host", "local", "repo", ".git"}
\* Fragments whose first character is an ASCII letter.
AlphaFrags == SchemeFrags \ {".git"}

\* str.lower() on a fragment.
LowerFrag(f) == IF f = "HTTPS" THEN "https" ELSE f
Lower(s) == [i \in DOMAIN s |-> LowerFrag(s[i])]

urlsplit(url) ==
    LET i == FindAny(url, {":"}, 1)
        hasScheme == /\ i > 1
                     /\ url[1] \in AlphaFrags
                     /\ \A k \in 1..(i - 1) : url[k] \in SchemeFrags
        scheme == IF hasScheme THEN Lower(SubSeq(url, 1, i - 1)) ELSE <<>>
        rest1  == IF hasScheme THEN SubSeq(url, i + 1, Len(url)) ELSE url
        hasNetloc == Len(rest1) >= 2 /\ rest1[1] = "/" /\ rest1[2] = "/"
        d      == FindAny(rest1, {"/", "?", "#"}, 3)
        delim  == IF d = 0 THEN Len(rest1) + 1 ELSE d
        netloc == IF hasNetloc THEN SubSeq(rest1, 3, delim - 1) ELSE <<>>
        rest2  == IF hasNetloc THEN SubSeq(rest1, delim, Len(rest1)) ELSE rest1
        h      == FindAny(rest2, {"#"}, 1)
        rest3  == IF h = 0 THEN rest2 ELSE SubSeq(rest2, 1, h - 1)
        frag   == IF h = 0 THEN <<>> ELSE SubSeq(rest2, h + 1, Len(rest2))
        q      == FindAny(rest3, {"?"}, 1)
        path   == IF q = 0 THEN rest3 ELSE SubSeq(rest3, 1, q - 1)
        query  == IF q = 0 THEN <<>> ELSE SubSeq(rest3, q + 1, Len(rest3))
    IN [scheme |-> scheme, netloc |-> netloc, path |-> path,
        query |-> query, fragment |-> frag]

\* urlparse differs from urlsplit only in splitting ";params" off the path;
\* scheme and netloc, the two fields the validators read, are the same.
urlparse(url) == urlsplit(url)

(***************************************************************************)
(* pathlib: Path(p).name, the final path component.                        *)
(***************************************************************************)
\* The text after the last "/" (the whole text when there is none).
LastSegment(s) == SubSeq(s, RFind(s, "/") + 1, Len(s))

\* s without its trailing "/" fragments.
RECURSIVE StripTrailingSlashes(_)
StripTrailingSlashes(s) ==
    IF s # <<>> /\ s[Len(s)] = "/"
    THEN StripTrailingSlashes(SubSeq(s, 1, Len(s) - 1))
    ELSE s

\* Path(p).name: pathlib drops empty components, so this is the last
\* non-empty '/'-separated component, "" when there is none.
PathName(p) == LastSegment(StripTrailingSlashes(p))

(***************************************************************************)
(* GitSettings: the three validators, run by pydantic in field order.      *)
(***************************************************************************)
MsgInvalid     == "Invalid repository URL or path"
MsgUnsupported == "Unsupported Git service."
MsgTypeError   == "TypeError"

\* any(service.host in netloc for service in GitService)
AnyHostIn(netloc) ==
    \E i \in DOMAIN GitService : Contains(netloc, GitService[i].host)

\* The last match instead of the first.
LastService(netloc) ==
    LET hits == {i \in DOMAIN GitService : Contains(netloc, GitService[i].host)}
    IN IF hits = {} THEN 0 ELSE CHOOSE i \in hits : \A j \in hits : i >= j

\* The index of the first member of GitService, in definition order, whose
\* host is contained in netloc; 0 when the loop falls through.
FirstService(netloc) ==
    LET hits == {i \in DOMAIN GitService : Contains(netloc, GitService[i].host)}
    IN IF hits = {} THEN 0 ELSE CHOOSE i \in hits : \A j \in hits : i <= j

\* `and` in place of `or`: rejects only what fails both tests.
RepositoryAcceptedAnd(value, dir) ==
    IF dir THEN TRUE
    ELSE LET parsed_url == urlparse(value)
         IN ~(parsed_url.scheme # <<"https">> /\ ~AnyHostIn(parsed_url.netloc))

\* validate_repository: TRUE when the value is returned, FALSE when
\* ValueError is raised.
RepositoryAccepted(value, dir) ==
    IF dir THEN TRUE
    ELSE LET parsed_url == urlparse(value)
         IN ~(parsed_url.scheme # <<"https">> \/ ~AnyHostIn(parsed_url.netloc))

\* set_source: the host returned, or <<>> when "Unsupported Git service." is
\* raised (no host of the registry is empty).
SourceOf(repo, dir) ==
    IF dir THEN GitService[1].host
    ELSE LET i == FirstService(urlparse(repo).netloc)
         IN IF i = 0 THEN <<>> ELSE GitService[i].host

\* name[:-4] when name.endswith(".git")
StripGit(name) ==
    IF name # <<>> /\ name[Len(name)] = ".git"
    THEN SubSeq(name, 1, Len(name) - 1)
    ELSE name

\* set_name: never raises on text.
NameOf(repo) ==
    LET parsed_url == urlsplit(repo)
    IN IF FirstService(parsed_url.netloc) # 0
       THEN LET path == parsed_url.path
                name == IF "/" \in Range(path) THEN LastSegment(path) ELSE path
            IN StripGit(name)
       ELSE PathName(repo)

ValidateRepository ==
    /\ phase = "git.repository"
    /\ IF RepositoryAccepted(repository, isDir)
       THEN /\ values' = [f \in {"repository"} |-> repository]
            /\ UNCHANGED errors
       ELSE /\ errors' = errors \cup {[loc |-> "repository", msg |-> MsgInvalid]}
            /\ UNCHANGED values
    /\ phase' = "git.source"
    /\ UNCHANGED <<repository, isDir, urlVars, loadVars, helperVars>>

\* values.get("repository") is None when the repository validator raised:
\* Path(None) raises TypeError, which pydantic records for the field.
SetSource ==
    /\ phase = "git.source"
    /\ IF "repository" \notin DOMAIN values
       THEN /\ errors' = errors \cup {[loc |-> "source", msg |-> MsgTypeError]}
            /\ UNCHANGED values
       ELSE LET src == SourceOf(values["repository"], isDir)
            IN IF src = <<>>
               THEN /\ errors' = errors \cup
                                   {[loc |-> "source", msg |-> MsgUnsupported]}
                    /\ UNCHANGED values
               ELSE /\ values' = [f \in DOMAIN values \cup {"source"} |->
                                    IF f = "source" THEN src ELSE values[f]]
                    /\ UNCHANGED errors
    /\ phase' = "git.name"
    /\ UNCHANGED <<repository, isDir, urlVars, loadVars, helperVars>>

\* With no repository in values, urlsplit(None) yields bytes fields and
\* `service.host in parsed_url.netloc` raises TypeError.
SetName ==
    /\ phase = "git.name"
    /\ IF "repository" \notin DOMAIN values
       THEN /\ errors' = errors \cup {[loc |-> "name", msg |-> MsgTypeError]}
            /\ UNCHANGED values
       ELSE /\ values' = [f \in DOMAIN values \cup {"name"} |->
                            IF f = "name" THEN NameOf(values["repository"])
                            ELSE values[f]]
            /\ UNCHANGED errors
    /\ phase' = "git.done"
    /\ UNCHANGED <<repository, isDir, urlVars, loadVars, helperVars>>

(***************************************************************************)
(* The repository texts the validators are run on.  None holds "[" or "]"  *)
(* (for which urlsplit raises ValueError), white space or a "." component. *)
(***************************************************************************)
Prefixes == { <<>>, <<"/", "/">>, <<"https", ":">>,
              <<"https", ":", "/", "/">>, <<"http", ":", "/", "/">>,
              <<"HTTPS", ":", "/", "/">> }
NetlocFrags == {"github.com", "gitlab.com", "bitbucket.org", "local",
                "host"}
Segments == { <<>>, <<"repo">>, <<".git">>, <<"repo", ".git">> }
Tails == { <<>>, <<"?", "repo">>, <<"#", "repo">> }

RECURSIVE JoinSegments(_)
JoinSegments(segs) ==
    IF segs = <<>> THEN <<>>
    ELSE <<"/">> \o Head(segs) \o JoinSegments(Tail(segs))

Paths == {JoinSegments(segs) : segs \in SeqsUpTo(Segments, MaxSegs)}
        \cup {<<"repo">>, <<"repo", "/", "repo">>}

Repositories ==
    {p \o n \o q \o t : p \in Prefixes, n \in SeqsUpTo(NetlocFrags, MaxNetloc),
                        q \in Paths, t \in Tails}

\* Path("") is the working directory and Path("/"), Path("//") the root:
\* these exist on every file system.  Any other text may or may not name a
\* directory (a relative one, for a text that reads as a URL).
AlwaysDirectory(repo) == \A i \in DOMAIN repo : repo[i] = "/"

IdleUrl    == /\ fileArgs = <<>> /\ fileUrl = <<>>
IdleLoad   == /\ doc = {} /\ docSections = {} /\ loaded = <<>>
              /\ loadErrors = {} /\ config = <<>>
IdleHelper == /\ helperDocs = <<>> /\ idx = 0 /\ dependency_files = <<>>
              /\ ignore_files = <<>> /\ language_names = <<>>
              /\ language_setup = <<>>

InitGit ==
    /\ phase = "git.repository"
    /\ repository \in Repositories
    /\ isDir \in BOOLEAN
    /\ AlwaysDirectory(repository) => isDir
    /\ values = <<>>
    /\ errors = {}
    /\ IdleUrl /\ IdleLoad /\ IdleHelper

NextGit == ValidateRepository \/ SetSource \/ SetName

SpecGit == InitGit /\ [][NextGit]_vars

(***************************************************************************)
(* readmeai.services.git_utilities.get_remote_file_url: resolve the        *)
(* repository to its service, then fill in the service's file_url.         *)
(***************************************************************************)
FilePaths == { <<"readmeai", "/", "main.py">>, <<"README.md">> }
FullNames == { <<"eli64s", "/", "readme-ai">>, <<"repo">> }

\* str.format(full_name=..., file_path=...) on a template.
RECURSIVE Format(_, _, _)
Format(template, full_name, file_path) ==
    IF template = <<>> THEN <<>>
    ELSE LET h == Head(template)
             piece == CASE h = "{full_name}" -> full_name
                        [] h = "{file_path}" -> file_path
                        [] OTHER -> <<h>>
         IN piece \o Format(Tail(template), full_name, file_path)

\* The member of GitService whose host is the resolved source.
ServiceOf(source) ==
    GitService[CHOOSE i \in DOMAIN GitService : GitService[i].host = source]

BuildFileUrl ==
    /\ phase = "git.done"
    /\ errors = {}
    /\ \E file_path \in FilePaths, full_name \in FullNames :
          /\ fileArgs' = [file_path |-> file_path, full_name |-> full_name]
          /\ fileUrl' = Format(ServiceOf(values["source"]).file_url,
                               full_name, file_path)
    /\ phase' = "url.done"
    /\ UNCHANGED <<gitVars, loadVars, helperVars>>

NextUrl == NextGit \/ BuildFileUrl

SpecUrl == InitGit /\ [][NextUrl]_vars

(***************************************************************************)
(* load_config: AppConfigModel.parse_obj({"app": conf_dict}).app           *)
(* pydantic validates the fields of AppConfig in declaration order; a      *)
(* field without a default that is absent from the input is recorded as    *)
(* "field required", one with a default takes the default.                 *)
(***************************************************************************)
MaxMissing == 1    \* keys or sections left out of a generated document

\* AppConfig's fields, in declaration order.
Sections == <<"cli", "files", "git", "llm", "md", "prompts">>

\* The fields each settings class declares without a default.
RequiredKeys(sec) ==
    CASE sec = "cli"     -> {}
      [] sec = "files"   -> {"dependency_files", "identifiers", "ignore_files",
                             "language_names", "language_setup", "output",
                             "shieldsio_icons", "skill_icons"}
      [] sec = "git"     -> {"repository"}
      [] sec = "llm"     -> {"endpoint", "encoding", "model", "rate_limit",
                             "temperature", "tokens", "tokens_max"}
      [] sec = "md"      -> {"align", "badges_offline", "badges_shieldsio",
                             "badges_skills", "badges_style", "contribute",
                             "default", "dropdown", "getting_started", "header",
                             "header_left", "image", "modules", "overview",
                             "tables", "toc", "tree"}
      [] sec = "prompts" -> {"features", "overview", "slogan", "summaries"}

\* The fields each settings class declares with a default, and the default.
DefaultKeys(sec) ==
    CASE sec = "cli" -> {"emojis", "offline"}
      [] sec = "git" -> {"source", "name"}
      [] OTHER       -> {}

DefaultValue(sec, key) ==
    CASE sec = "cli" /\ key = "emojis"  -> "True"
      [] sec = "cli" /\ key = "offline" -> "False"
      [] OTHER                          -> "None"

AllKeys(sec) == RequiredKeys(sec) \cup DefaultKeys(sec)

\* The value the document gives a key it holds (never a default value).
DocValue(sec, key) ==
    CASE sec = "cli" /\ key = "emojis"  -> "False"
      [] sec = "cli" /\ key = "offline" -> "True"
      [] OTHER                          -> "given"

\* Every (section, key) a complete primary document holds; source and name
\* of the git section are derived, not supplied.
FullDoc ==
    UNION {{<<Sections[i], k>> : k \in AllKeys(Sections[i])} :
              i \in DOMAIN Sections}
    \ {<<"git", "source">>, <<"git", "name">>}

AllSections == Range(Sections)

\* Validation of a settings class with no validators of its own: the values
\* it yields and the locations it reports.
SectionValues(sec) ==
    [k \in {k \in AllKeys(sec) : <<sec, k>> \in doc \/ k \in DefaultKeys(sec)} |->
        IF <<sec, k>> \in doc THEN DocValue(sec, k) ELSE DefaultValue(sec, k)]

\* Every key treated as having a default.
SectionErrorsNoneRequired(sec) ==
    IF sec \notin docSections THEN {<<sec>>} ELSE {}

SectionErrors(sec) ==
    IF sec \notin docSections THEN {<<sec>>}
    ELSE {<<sec, k>> : k \in {k \in RequiredKeys(sec) : <<sec, k>> \notin doc}}

LoadSection(sec, next) ==
    /\ phase = sec
    /\ IF SectionErrors(sec) = {}
       THEN /\ loaded' = [s \in DOMAIN loaded \cup {sec} |->
                            IF s = sec THEN SectionValues(sec) ELSE loaded[s]]
            /\ UNCHANGED loadErrors
       ELSE /\ loadErrors' = loadErrors \cup SectionErrors(sec)
            /\ UNCHANGED loaded
    /\ phase' = next
    /\ UNCHANGED <<gitVars, urlVars, doc, docSections, config, helperVars>>

LoadCli     == LoadSection("cli", "files")
LoadFiles   == LoadSection("files", "git")
LoadLlm     == LoadSection("llm", "md")
LoadMd      == LoadSection("md", "prompts")
LoadPrompts == LoadSection("prompts", "finish")

\* The git section is a GitSettings: with the section present, its fields
\* are validated in order.  A missing repository is "field required" and
\* its validator is not called; source and name have a default and
\* always=True, so their validators are called all the same.
LoadGit ==
    /\ phase = "git"
    /\ IF "git" \notin docSections
       THEN /\ loadErrors' = loadErrors \cup {<<"git">>}
            /\ phase' = "llm"
            /\ UNCHANGED errors
       ELSE IF <<"git", "repository">> \notin doc
       THEN /\ errors' = {[loc |-> "repository", msg |-> "field required"]}
            /\ phase' = "git.source"
            /\ UNCHANGED loadErrors
       ELSE /\ phase' = "git.repository"
            /\ UNCHANGED <<errors, loadErrors>>
    /\ UNCHANGED <<repository, isDir, values, urlVars, doc, docSections,
                   loaded, config, helperVars>>

\* GitSettings validation returns to AppConfig's: the object, or its errors
\* under the location of the git field.
LoadGitDone ==
    /\ phase = "git.done"
    /\ "git" \in docSections
    /\ IF errors = {}
       THEN /\ loaded' = [s \in DOMAIN loaded \cup {"git"} |->
                            IF s = "git" THEN values ELSE loaded[s]]
            /\ UNCHANGED loadErrors
       ELSE /\ loadErrors' = loadErrors \cup {<<"git", e.loc>> : e \in errors}
            /\ UNCHANGED loaded
    /\ phase' = "llm"
    /\ UNCHANGED <<gitVars, urlVars, doc, docSections, config, helperVars>>

\* parse_obj returns the model, or raises ValidationError with every error.
LoadFinish ==
    /\ phase = "finish"
    /\ IF loadErrors = {}
       THEN /\ config' = loaded
            /\ phase' = "loaded"
       ELSE /\ config' = <<>>
            /\ phase' = "ValidationError"
    /\ UNCHANGED <<gitVars, urlVars, doc, docSections, loaded, loadErrors,
                   helperVars>>

\* The documents loaded: a complete one less at most MaxMissing keys or
\* whole sections.
Omissions ==
    {<<s>> : s \in AllSections} \cup FullDoc

RECURSIVE SubsetsUpTo(_, _)
SubsetsUpTo(S, n) ==
    IF n = 0 THEN {{}}
    ELSE LET P == SubsetsUpTo(S, n - 1)
         IN P \cup {T \cup {x} : T \in P, x \in S}

LoadRepositories ==
    { <<"https", ":", "/", "/", "github.com", "/", "repo", "/", "repo", ".git">>,
      <<"http", ":", "/", "/", "github.com", "/", "repo">>,
      <<"repo">> }

InitLoad ==
    /\ phase = "cli"
    /\ \E out \in SubsetsUpTo(Omissions, MaxMissing) :
         /\ docSections = {s \in AllSections : <<s>> \notin out}
         /\ doc = {e \in FullDoc : e \notin out /\ <<e[1]>> \notin out}
    /\ repository \in LoadRepositories
    /\ isDir \in BOOLEAN
    /\ values = <<>> /\ errors = {}
    /\ loaded = <<>> /\ loadErrors = {} /\ config = <<>>
    /\ IdleUrl /\ IdleHelper

NextLoad ==
    \/ LoadCli \/ LoadFiles \/ LoadGit \/ LoadGitDone
    \/ LoadLlm \/ LoadMd \/ LoadPrompts \/ LoadFinish
    \/ ValidateRepository \/ SetSource \/ SetName

SpecLoad == InitLoad /\ [][NextLoad]_vars

(***************************************************************************)
(* ConfigHelper.load_helper_files: the four helper documents are read in   *)
(* conf_path_list order and folded into the four accumulators.             *)
(***************************************************************************)
NumVariants == 2   \* distinct contents a generated document gives one key

\* conf_path_list: the files settings naming the helper documents.
ConfPathList == <<"dependency_files", "ignore_files", "language_names",
                  "language_setup">>

MappingKeys == {"ignore_files", "language_names", "language_setup"}
HelperKeys  == {"dependency_files"} \cup MappingKeys

\* Assignment in place of extend.
ExtendReplaces(list, more) == more

\* list.extend
Extend(list, more) == list \o more

\* setdefault in place of update: the first value of a key stands.
UpdateKeepsFirst(dict, other) ==
    [k \in DOMAIN dict \cup DOMAIN other |->
        IF k \in DOMAIN dict THEN dict[k] ELSE other[k]]

\* dict.update
Update(dict, other) ==
    [k \in DOMAIN dict \cup DOMAIN other |->
        IF k \in DOMAIN other THEN other[k] ELSE dict[k]]

\* if "dependency_files" in conf_dict: self.dependency_files.extend(...)
MergeList(acc, conf_dict, key) ==
    IF key \in DOMAIN conf_dict THEN Extend(acc, conf_dict[key]) ELSE acc

\* accumulator = conf_dict.get(key, {}) merged: an absent key empties it.
MergeMappingResets(acc, conf_dict, key) ==
    IF key \in DOMAIN conf_dict THEN Update(acc, conf_dict[key]) ELSE <<>>

\* if key in conf_dict: accumulator.update(conf_dict[key])
MergeMapping(acc, conf_dict, key) ==
    IF key \in DOMAIN conf_dict THEN Update(acc, conf_dict[key]) ELSE acc

\* One turn of the loop: _get_config_dict raises FileNotFoundError for a
\* path that does not exist, which ends load_helper_files; otherwise the
\* document read is merged.
LoadHelperFile ==
    /\ phase = "helpers"
    /\ idx < Len(ConfPathList)
    /\ LET file == helperDocs[idx + 1]
           conf_dict == file.dict
       IN IF ~file.found
          THEN /\ phase' = "FileNotFoundError"
               /\ UNCHANGED <<idx, dependency_files, ignore_files,
                              language_names, language_setup>>
          ELSE /\ dependency_files' =
                      MergeList(dependency_files, conf_dict, "dependency_files")
               /\ ignore_files' =
                      MergeMapping(ignore_files, conf_dict, "ignore_files")
               /\ language_names' =
                      MergeMapping(language_names, conf_dict, "language_names")
               /\ language_setup' =
                      MergeMapping(language_setup, conf_dict, "language_setup")
               /\ idx' = idx + 1
               /\ phase' = IF idx + 1 = Len(ConfPathList)
                           THEN "helpers.done" ELSE "helpers"
    /\ UNCHANGED <<gitVars, urlVars, loadVars, helperDocs>>

\* The contents of the generated documents.
Names == <<"py", "js", "go", "rs", "sh">>
Texts == <<"Python", "JavaScript", "Go", "Rust", "Shell">>

DependencyVariant(v) ==
    [i \in 1..v |-> IF i % 2 = 1 THEN "requirements.txt" ELSE "package.json"]

\* Every variant maps "py", each to another text, and one name of its own.
NamesVariant(v) ==
    [k \in {Names[1], Names[v + 1]} |-> IF k = Names[1] THEN Texts[v]
                                        ELSE Texts[v + 1]]

ListsVariant(v) ==
    [k \in {Names[1], Names[v + 1]} |-> IF k = Names[1] THEN <<Texts[v]>>
                                        ELSE <<Texts[v + 1], Texts[v]>>]

Variant(key, v) ==
    CASE key = "dependency_files" -> DependencyVariant(v)
      [] key = "language_names"   -> NamesVariant(v)
      [] OTHER                    -> ListsVariant(v)

\* Documents with one recognized key, with all four, with none (empty, or
\* holding a key the merger does not know), and a path that does not exist.
HelperDicts ==
    {[k \in {key} |-> Variant(key, v)] : key \in HelperKeys, v \in 1..NumVariants}
    \cup {[k \in HelperKeys |-> Variant(k, v)] : v \in 1..NumVariants}
    \cup {<<>>, [k \in {"badges"} |-> NamesVariant(1)]}

HelperFiles ==
    {[found |-> TRUE, dict |-> d] : d \in HelperDicts}
    \cup {[found |-> FALSE, dict |-> <<>>]}

InitHelpers ==
    /\ phase = "helpers"
    /\ helperDocs \in [DOMAIN ConfPathList -> HelperFiles]
    /\ idx = 0
    /\ dependency_files = <<>>
    /\ ignore_files = <<>>
    /\ language_names = <<>>
    /\ language_setup = <<>>
    /\ repository = <<>> /\ isDir = FALSE /\ values = <<>> /\ errors = {}
    /\ IdleUrl /\ IdleLoad

NextHelpers == LoadHelperFile

SpecHelpers == InitHelpers /\ [][NextHelpers]_vars

(***************************************************************************)
(* The module as a whole: any one of its operations, from its start.       *)
(***************************************************************************)
Init == InitGit \/ InitLoad \/ InitHelpers

Next == NextUrl \/ NextLoad \/ NextHelpers

Spec == Init /\ [][Next]_vars

(***************************************************************************)
(* Properties of the repository validators (SpecGit, SpecUrl).             *)
(***************************************************************************)
Parsed == urlsplit(repository)

NotHttps == Parsed.scheme # <<"https">>

NoRegisteredHost == \A h \in Hosts : ~Contains(Parsed.netloc, h)

\* The validators have all run and pydantic builds the GitSettings object.
Resolved == phase \in {"git.done", "url.done"} /\ errors = {}

\* C3: a repository that is not a local directory and whose URL scheme is not
\* https, or whose network location contains no registered host, is rejected
\* by the repository validator with "Invalid repository URL or path", and no
\* GitSettings object is built from it.
C3_InvalidRejected ==
    (/\ phase \in {"git.source", "git.name", "git.done"}
     /\ ~isDir
     /\ (NotHttps \/ NoRegisteredHost))
    => /\ [loc |-> "repository", msg |-> MsgInvalid] \in errors
       /\ "repository" \notin DOMAIN values
       /\ ~Resolved

\* An https URL on an unregistered host and an http URL on a registered one
\* have both been rejected.
C3_Witness ==
    /\ phase = "git.done" /\ ~isDir
    /\ [loc |-> "repository", msg |-> MsgInvalid] \in errors
    /\ \/ (Parsed.scheme = <<"https">> /\ Parsed.netloc = <<"host">>)
       \/ (Parsed.scheme = <<"http">> /\ Parsed.netloc = <<"github.com">>)

\* C4: for a repository that is an existing local directory, the validators
\* succeed with source = "local" and name = the directory's final path
\* component, whatever the text would parse to as a URL.
C4_LocalDirectory ==
    (phase = "git.done" /\ isDir)
    => /\ errors = {}
       /\ values["source"] = <<"local">>
       /\ values["name"] = PathName(repository)

\* The last non-empty '/'-separated segment of a URL path, less one trailing
\* ".git".
ClaimedName(path) ==
    LET seg == PathName(path)
    IN IF seg # <<>> /\ seg[Len(seg)] = ".git"
       THEN SubSeq(seg, 1, Len(seg) - 1) ELSE seg

\* C5: for an accepted remote URL, name is the last non-empty segment of the
\* URL path with one trailing ".git" removed; a path ending in "/" yields the
\* segment before it, not the empty text.
C5_RemoteName ==
    (phase = "git.done" /\ ~isDir /\ errors = {})
    => values["name"] = ClaimedName(Parsed.path)

\* C8: once a repository that is not a local directory has passed the
\* repository validator, set_source succeeds and returns the host of the
\* first member of GitService, in definition order, whose host is contained
\* in the network location; "Unsupported Git service." is never raised.
C8_SourceIsFirstMatch ==
    (/\ phase \in {"git.name", "git.done"}
     /\ ~isDir
     /\ "repository" \in DOMAIN values)
    => /\ "source" \in DOMAIN values
       /\ [loc |-> "source", msg |-> MsgUnsupported] \notin errors
       /\ \E i \in DOMAIN GitService :
            /\ values["source"] = GitService[i].host
            /\ Contains(Parsed.netloc, GitService[i].host)
            /\ \A j \in 1..(i - 1) : ~Contains(Parsed.netloc, GitService[j].host)

\* A network location holding "gitlab.com" before "github.com" resolved to
\* github.com: the order of the registry decides, not the position.
C8_Witness ==
    /\ Resolved /\ ~isDir
    /\ Parsed.netloc = <<"gitlab.com", "github.com">>
    /\ values["source"] = <<"github.com">>

\* C9: a repository that is not a local directory never resolves to the
\* source "local", and is accepted only if its network location contains the
\* host of a real service.
C9_SentinelDistinct ==
    (~isDir /\ "repository" \in DOMAIN values)
    => /\ \E h \in Hosts \ {<<"local">>} : Contains(Parsed.netloc, h)
       /\ ("source" \in DOMAIN values => values["source"] # <<"local">>)

\* The file URL the service of the resolved source is documented to give.
ExpectedFileUrl(source, full_name, file_path) ==
    CASE source = <<"github.com">> ->
            <<"https", ":", "/", "/", "github.com", "/">> \o full_name
            \o <<"/", "blob", "/", "main", "/">> \o file_path
      [] source = <<"gitlab.com">> ->
            <<"https", ":", "/", "/", "gitlab.com", "/">> \o full_name
            \o <<"/", "-", "/", "blob", "/", "master", "/">> \o file_path
      [] source = <<"bitbucket.org">> ->
            <<"https", ":", "/", "/", "bitbucket.org", "/">> \o full_name
            \o <<"/", "src", "/", "master", "/">> \o file_path
      [] source = <<"local">> -> file_path

\* C6: the remote file URL of a resolved repository is the file-URL template
\* of its service with full_name and file_path filled in; for "local" it is
\* the file path alone.
C6_FileUrl ==
    phase = "url.done"
    => fileUrl = ExpectedFileUrl(values["source"], fileArgs.full_name,
                                 fileArgs.file_path)

\* The URL of readmeai/main.py in https://gitlab.com/... has been built.
C6_Witness ==
    /\ phase = "url.done" /\ ~isDir
    /\ values["source"] = <<"gitlab.com">>
    /\ fileArgs.file_path = <<"readmeai", "/", "main.py">>
    /\ fileArgs.full_name = <<"eli64s", "/", "readme-ai">>
    /\ fileUrl = <<"https", ":", "/", "/", "gitlab.com", "/", "eli64s", "/",
                   "readme-ai", "/", "-", "/", "blob", "/", "master", "/",
                   "readmeai", "/", "main.py">>

(***************************************************************************)
(* Properties of load_config (SpecLoad).                                   *)
(***************************************************************************)
LoadEnded == phase \in {"loaded", "ValidationError"}

\* The keys of a section that is present which the document leaves out.
MissingKeys == {e \in FullDoc : e \notin doc /\ e[1] \in docSections}

CliKeys == {<<"cli", "emojis">>, <<"cli", "offline">>}

Accumulator(key) ==
    CASE key = "dependency_files" -> dependency_files
      [] key = "ignore_files"     -> ignore_files
      [] key = "language_names"   -> language_names
      [] key = "language_setup"   -> language_setup

\* The documents processed so far, among those that hold `key`, that define
\* the entry k of it.
Definers(key, k) ==
    {i \in 1..idx : /\ key \in DOMAIN helperDocs[i].dict
                    /\ k \in DOMAIN helperDocs[i].dict[key]}

Latest(S) == CHOOSE i \in S : \A j \in S : i >= j

\* Every entry name a generated document can define.
EntryNames == Range(Names)

\* C1: after any number of documents, each of the three mappings holds, for
\* every entry defined by a processed document, the value given by the last
\* such document in processing order, and holds no other entry.
C1_LastWriteWins ==
    \A key \in MappingKeys :
       /\ DOMAIN Accumulator(key) \subseteq EntryNames
       /\ \A k \in EntryNames :
            IF Definers(key, k) = {}
            THEN k \notin DOMAIN Accumulator(key)
            ELSE /\ k \in DOMAIN Accumulator(key)
                 /\ Accumulator(key)[k] =
                      helperDocs[Latest(Definers(key, k))].dict[key][k]

\* Two documents gave language_names["py"] different values and the second
\* one's stands, beside the entries only one of them defines.
C1_Witness ==
    /\ phase = "helpers.done"
    /\ Definers("language_names", "py") = {2, 3}
    /\ helperDocs[2].dict["language_names"]["py"] = "Python"
    /\ helperDocs[3].dict["language_names"]["py"] = "JavaScript"
    /\ language_names = [k \in {"py", "js", "go"} |->
                           CASE k = "py" -> "JavaScript"
                             [] k = "js" -> "JavaScript"
                             [] k = "go" -> "Go"]

\* The dependency_files of the first n documents, in order, end to end.
RECURSIVE DependenciesUpTo(_)
DependenciesUpTo(n) ==
    IF n = 0 THEN <<>>
    ELSE DependenciesUpTo(n - 1)
         \o (IF "dependency_files" \in DOMAIN helperDocs[n].dict
             THEN helperDocs[n].dict["dependency_files"] ELSE <<>>)

\* C2: after any number of documents, dependency_files is the concatenation,
\* in processing order, of the dependency_files of the documents processed.
C2_DependenciesConcatenated ==
    dependency_files = DependenciesUpTo(idx)

\* The same document was read twice and its entries are there twice.
C2_Witness ==
    /\ phase = "helpers.done"
    /\ helperDocs[1] = helperDocs[4]
    /\ helperDocs[1].dict = [k \in {"dependency_files"} |->
                               <<"requirements.txt", "package.json">>]
    /\ helperDocs[2].dict = [k \in {"dependency_files"} |-> <<"requirements.txt">>]
    /\ dependency_files = <<"requirements.txt", "package.json", "requirements.txt",
                            "requirements.txt", "package.json">>

\* C10: processing a document leaves unchanged every accumulator whose key
\* the document does not hold, and a document read successfully is not an
\* error whatever keys it holds.
C10_Frame ==
    [][ /\ idx' = idx + 1
          => \A key \in HelperKeys :
               key \notin DOMAIN helperDocs[idx'].dict
               => Accumulator(key)' = Accumulator(key)
        /\ (phase = "helpers" /\ helperDocs[idx + 1].found)
          => (idx' = idx + 1 /\ phase' # "FileNotFoundError") ]_vars

\* A document holding only a key the merger does not know was processed
\* third and left the four non-empty accumulators as they were.
C10_Witness ==
    /\ idx = 3 /\ phase = "helpers"
    /\ DOMAIN helperDocs[1].dict = HelperKeys
    /\ DOMAIN helperDocs[2].dict = {"language_names"}
    /\ DOMAIN helperDocs[3].dict = {"badges"}
    /\ dependency_files = helperDocs[1].dict["dependency_files"]
    /\ ignore_files = helperDocs[1].dict["ignore_files"]
    /\ language_setup = helperDocs[1].dict["language_setup"]
    /\ language_names # helperDocs[1].dict["language_names"]

====
